---- MODULE Spec2Model ----
(***************************************************************************)
(* Reticulum decentralized file server: the content-addressed store        *)
(* (cid_store.py) and the replication engine (rns_interface.py,            *)
(* server_command_state.py) as state machines.                             *)
(*                                                                         *)
(* Representation.                                                         *)
(*   hash      a sequence of integers.  Sha224 is modelled as an injective *)
(*             function: the digest of an input is the input between the   *)
(*             brackets -1 and -2 (so equal digests <=> equal inputs, and  *)
(*             the concatenation of digests decodes uniquely, as that of   *)
(*             fixed-width hex strings does).  Data bytes are 1..MaxByte,  *)
(*             so no data equals the text of a digest.                     *)
(*   bytes     a sequence over 1..MaxByte.                                 *)
(*   CidStore  a record [source_hash, index, files]: index is the Python   *)
(*             dict in insertion order (a sequence of Cid records with     *)
(*             distinct hashes), files is the directory <store_path>/store *)
(*             (file name -> content).                                     *)
(*   A method that can raise returns a record with a field raised; the     *)
(*   state it returns is the state at the moment of the exception.         *)
(***************************************************************************)
EXTENDS Integers, Sequences, FiniteSets, TLC

\* ------------------------------------------------------------------ bounds
\* chunk_size (cid_store.py:16 sets 10 240) scaled down to the model's data.
ChunkSize == 2
\* Longest byte sequence uploaded.
MaxLen == 4
\* Byte values are 1..MaxByte.
MaxByte == 1
\* Largest number of nodes the index of one store holds.
MaxNodes == 5
\* The clock runs from 1 to MaxTime.
MaxTime == 2
\* Number of calls of the API in one behaviour of StoreSpec.
MaxOps == 3
\* Number of packets, announces and incoming links the network brings in one
\* behaviour of NetSpec.
MaxEvents == 3
\* The 60 seconds a desired hash waits for its next request (rns_interface.py
\* lines 176 and 239), in units of the network specifications' clock.
RetryDelay == 1
\* The clock of the network specifications runs from 1 to MaxClock.
MaxClock == 3
\* attempts counts up to MaxAttempts and stays there; the code compares it
\* with max_allowed_attempts alone, so every larger value behaves alike.
MaxAttempts == 3
\* Largest number of entries of desired_hash_translation_map.
MaxDesired == 2
\* Largest number of providers listed for one desired hash.
MaxSources == 1
\* Link and request ids are 1..MaxLinks: the links open, and the requests
\* request_id_to_hash still lists, at one time.
MaxLinks == 2
\* max_allowed_attempts (rns_interface.py:48 sets 5) scaled down with
\* MaxAttempts.
max_allowed_attempts == 2

\* ------------------------------------------------------- program constants
TYPE_SRC == 0
TYPE_FILE == 1
TYPE_DIR == 2
TYPE_CHUNK == 3
\* --max_file_size, as main.py passes it to ServerCommandState
max_file_size == 5000

\* --------------------------------------------------------------- variables
VARIABLES
    cs,                  \* this node's CidStore
    now,                 \* time.time()
    last,                \* the last store operation: name, arguments, result
    ops,                 \* the number of operations counted by MaxOps so far
    desired,             \* RNSInterface.desired_hash_translation_map
    request_id_to_hash,  \* RNSInterface.request_id_to_hash
    currently_linked,    \* RNSInterface.currently_linked
    links,               \* the RNS.Link objects of this node, by link id
    sched,               \* the thread running service_desired_hash_list
    pending,             \* the delayed_broadcast threads that are asleep
    outbox,              \* broadcast packets this node sent, not yet taken
    inbox,               \* broadcast packets on their way to this node
    peer,                \* the CidStore of the peer that owns PeerSrc
    peer_linked          \* the peer's currently_linked

storevars == <<cs, now, last, ops>>
netvars == <<desired, request_id_to_hash, currently_linked, links, sched,
             pending, outbox, inbox, peer, peer_linked>>
vars == <<cs, now, last, ops, desired, request_id_to_hash, currently_linked,
          links, sched, pending, outbox, inbox, peer, peer_linked>>

\* ----------------------------------------------------------------- helpers
Range(s) == {s[i] : i \in 1..Len(s)}

\* F(v), with v computed once (a local variable holding a result).
With(v, F(_)) == CHOOSE y \in {F(x) : x \in {v}} : TRUE

RECURSIVE Flatten(_)
\* ''.join(list of hash strings)
Flatten(ss) == IF ss = <<>> THEN <<>> ELSE Head(ss) \o Flatten(Tail(ss))

RECURSIVE SeqsUpTo(_,_)
\* All sequences over S of length at most n.
SeqsUpTo(S, n) ==
    IF n = 0 THEN {<<>>}
    ELSE LET shorter == SeqsUpTo(S, n - 1)
         IN shorter \cup {Append(s, x) : s \in {t \in shorter : Len(t) = n - 1}, x \in S}

Bytes == 1..MaxByte
Datas == SeqsUpTo(Bytes, MaxLen)

\* The parent of a SRC node ('root').
RootParent == <<0>>
\* "no parent given" (None or the empty string).
NoHash == <<>>
\* Destination hex hashes: this node's and the peer's.
OwnSrc == <<-3, 1>>
PeerSrc == <<-3, 2>>

\* A node name: a file or directory name, or f'{name}.chunk_{i}'.
Name(base) == [base |-> base, chunk |-> -1]
ChunkName(name, i) == [base |-> name.base, chunk |-> i]

\* ------------------------------------------------------------------ hasher
\* hashlib.sha224().copy(); update(input); hexdigest()
Sha224(input) == <<-1>> \o input \o <<-2>>

\* --------------------------------------------------------------- the index
Cid(hash, name, time_stamp, size, parent, children, is_stored, type) ==
    [hash |-> hash, name |-> name, time_stamp |-> time_stamp, size |-> size,
     parent |-> parent, children |-> children, is_stored |-> is_stored,
     type |-> type]

Keys(idx) == {idx[i].hash : i \in 1..Len(idx)}
KeySeq(idx) == [i \in 1..Len(idx) |-> idx[i].hash]
has_node(c, h) == h \in Keys(c.index)
Pos(idx, h) == CHOOSE i \in 1..Len(idx) : idx[i].hash = h
\* self.index[hash], for a hash in the index
get_node_obj(c, h) == c.index[Pos(c.index, h)]
\* self.index[n.hash] = n: an existing key keeps its place
PutNode(idx, n) ==
    IF n.hash \in Keys(idx) THEN [idx EXCEPT ![Pos(idx, n.hash)] = n]
    ELSE Append(idx, n)
\* self.index.pop(h)
PopNode(idx, h) ==
    LET p == Pos(idx, h)
    IN [i \in 1..(Len(idx) - 1) |-> IF i < p THEN idx[i] ELSE idx[i + 1]]

\* CidStore.__init__ on an empty store directory: load_index creates the SRC
\* node, clear_store finds nothing to remove.
NewStore(source_hash, source_name, clock) ==
    [source_hash |-> source_hash,
     index |-> <<Cid(source_hash, Name(source_name), clock, 0, RootParent, <<>>,
                     TRUE, TYPE_SRC)>>,
     files |-> <<>>]

RECURSIVE get_parent_hashes(_,_)
get_parent_hashes(c, node_hash) ==
    IF has_node(c, node_hash) /\ get_node_obj(c, node_hash).type # TYPE_SRC
    THEN LET parent == get_node_obj(c, node_hash).parent
         IN Append(get_parent_hashes(c, parent), parent)
    ELSE <<>>

get_path_hash(c, parent_hash) ==
    Sha224(Flatten(Append(get_parent_hashes(c, parent_hash), parent_hash)))

get_data_hash(c, parent_hash, data, include_source) ==
    IF include_source THEN Sha224(get_path_hash(c, parent_hash) \o data)
    ELSE Sha224(data)

is_storage_hash(c, h) == has_node(c, h) /\ get_node_obj(c, h).type = TYPE_CHUNK

\* os.path.isfile(self.get_data_path(h))
is_file(c, h) == h \in DOMAIN c.files

RECURSIVE check_is_stored_ret(_,_)
\* The value check_is_stored returns.
check_is_stored_ret(c, h) ==
    IF ~has_node(c, h) THEN FALSE
    ELSE LET node == get_node_obj(c, h)
         IN IF node.type # TYPE_CHUNK
            THEN /\ ~(node.children = <<>> /\ node.type = TYPE_FILE)
                 /\ \A i \in 1..Len(node.children) :
                        check_is_stored_ret(c, node.children[i])
            ELSE is_file(c, h)

RECURSIVE Visited(_,_)
\* The nodes check_is_stored(h) visits: h and the nodes under it by children.
Visited(c, h) ==
    IF ~has_node(c, h) THEN {}
    ELSE LET node == get_node_obj(c, h)
         IN {h} \cup (IF node.type # TYPE_CHUNK
                      THEN UNION {Visited(c, node.children[i]) :
                                     i \in 1..Len(node.children)}
                      ELSE {})

\* check_is_stored: sets is_stored on every node it visits and returns h's.
check_is_stored(c, h) ==
    With(Visited(c, h), LAMBDA seen :
      [ret |-> check_is_stored_ret(c, h),
       cs |-> [c EXCEPT !.index =
                 [i \in 1..Len(c.index) |->
                    IF c.index[i].hash \in seen
                    THEN [c.index[i] EXCEPT
                            !.is_stored = check_is_stored_ret(c, c.index[i].hash)]
                    ELSE c.index[i]]]])

RECURSIVE get_children(_,_,_)
get_children(c, node_hash, include_chunks) ==
    IF ~has_node(c, node_hash) THEN <<>>
    ELSE With(get_node_obj(c, node_hash), LAMBDA node :
           LET F[i \in 0..Len(node.children)] ==
                   IF i = 0 THEN <<>>
                   ELSE F[i - 1] \o <<node.children[i]>>
                        \o get_children(c, node.children[i], include_chunks)
           IN IF node.type # TYPE_FILE \/ include_chunks
              THEN F[Len(node.children)] ELSE <<>>)

\* Whether the recursion of a traversal comes to an end. The three methods
\* recurse on node.children without a set of visited nodes; fuel is the depth
\* of calls left, and a chain of calls longer than the index has nodes meets
\* a node twice and never ends (Python gives up with RecursionError).
RECURSIVE check_is_stored_ends(_,_,_)
check_is_stored_ends(c, h, fuel) ==
    IF ~has_node(c, h) THEN TRUE
    ELSE IF fuel = 0 THEN FALSE
    ELSE LET node == get_node_obj(c, h)
         IN node.type # TYPE_CHUNK
            => \A i \in 1..Len(node.children) :
                   check_is_stored_ends(c, node.children[i], fuel - 1)

RECURSIVE get_children_ends(_,_,_,_)
get_children_ends(c, node_hash, include_chunks, fuel) ==
    IF ~has_node(c, node_hash) THEN TRUE
    ELSE IF fuel = 0 THEN FALSE
    ELSE LET node == get_node_obj(c, node_hash)
         IN (node.type # TYPE_FILE \/ include_chunks)
            => \A i \in 1..Len(node.children) :
                   get_children_ends(c, node.children[i], include_chunks, fuel - 1)

RECURSIVE get_node_information_ends(_,_,_,_)
\* node_dict is new in every call: 'child_hash not in node_dict' keeps the
\* node itself out, not the nodes of the calls above.
get_node_information_ends(c, hash, initial_req, fuel) ==
    IF ~has_node(c, hash) THEN TRUE
    ELSE IF fuel = 0 THEN FALSE
    ELSE LET node == get_node_obj(c, hash)
         IN (node.type # TYPE_FILE \/ initial_req)
            => \A i \in 1..Len(node.children) :
                   node.children[i] # hash
                   => get_node_information_ends(c, node.children[i], FALSE, fuel - 1)

\* get_node(hash) for a hash of the index: check_is_stored, then
\* get_node_information unless the node is a CHUNK.
get_node_ends(c, hash) ==
    /\ check_is_stored_ends(c, hash, Len(c.index) + 1)
    /\ (has_node(c, hash) /\ get_node_obj(c, hash).type # TYPE_CHUNK)
          => get_node_information_ends(c, hash, TRUE, Len(c.index) + 1)

\* -------------------------------------------------------------- add_node
RECURSIVE add_node(_,_,_,_,_,_,_,_)
RECURSIVE AddChunks(_,_,_,_,_,_,_)
\* The loop of add_node over range(0, size, chunk_size), from chunk i on.
AddChunks(c, name, file_hash, time_stamp, data_store, i, clock) ==
    IF i * ChunkSize >= Len(data_store) THEN c
    ELSE LET pos == i * ChunkSize
             hi == IF pos + ChunkSize < Len(data_store)
                   THEN pos + ChunkSize ELSE Len(data_store)
             slice == SubSeq(data_store, pos + 1, hi)
             r == add_node(c, ChunkName(name, i), file_hash, TYPE_CHUNK,
                           time_stamp, slice, FALSE, clock)
         IN AddChunks(r.cs, name, file_hash, time_stamp, data_store, i + 1, clock)

\* add_node: [cs, ret, raised]. time_stamp 0 stands for None (both are falsy);
\* raised is the AttributeError of get_node_obj(parent).children on a parent
\* that is not in the index.
add_node(c, name, parent, node_type, time_stamp, data_store, stored, clock) ==
    LET ts == IF time_stamp = 0 THEN clock ELSE time_stamp
        hash_digest ==
            IF data_store # <<>>
            THEN get_data_hash(c, parent, data_store, node_type # TYPE_CHUNK)
            ELSE get_path_hash(c, parent)
        size == Len(data_store)
        st == IF data_store # <<>> THEN TRUE ELSE stored
    IN IF ~has_node(c, parent)
       THEN [cs |-> c, ret |-> hash_digest, raised |-> TRUE]
       ELSE LET p == get_node_obj(c, parent)
                idx1 == IF hash_digest \in Range(p.children) THEN c.index
                        ELSE PutNode(c.index,
                                 [p EXCEPT !.children = Append(@, hash_digest)])
                idx2 == PutNode(idx1, Cid(hash_digest, name, ts, size, parent,
                                          <<>>, st, node_type))
                c2 == [c EXCEPT !.index = idx2]
            IN [cs |-> IF size > 0 /\ node_type = TYPE_FILE
                       THEN AddChunks(c2, name, hash_digest, ts, data_store, 0, clock)
                       ELSE IF size > 0
                       THEN [c2 EXCEPT !.files =
                               [f \in DOMAIN c2.files \cup {hash_digest} |->
                                  IF f = hash_digest THEN data_store
                                  ELSE c2.files[f]]]
                       ELSE c2,
                ret |-> hash_digest,
                raised |-> FALSE]

\* add_file / add_dir: [cs, ok, ret]; ok = FALSE is the early "return False".
\* The tests of add_file and add_dir without the one on the parent's type.
ParentAllowed_typeless(c, parent) ==
    /\ has_node(c, parent)
    /\ (c.source_hash \in Range(get_parent_hashes(c, parent))
        \/ c.source_hash = parent)

ParentAllowed(c, parent) ==
    /\ has_node(c, parent)
    /\ get_node_obj(c, parent).type \notin {TYPE_FILE, TYPE_CHUNK}
    /\ (c.source_hash \in Range(get_parent_hashes(c, parent))
        \/ c.source_hash = parent)

add_file(c, file_name, data, parent_arg, clock) ==
    LET parent == IF parent_arg = NoHash THEN c.source_hash ELSE parent_arg
    IN IF ParentAllowed(c, parent)
       THEN LET r == add_node(c, file_name, parent, TYPE_FILE, 0, data, FALSE, clock)
            IN [cs |-> r.cs, ok |-> TRUE, ret |-> r.ret]
       ELSE [cs |-> c, ok |-> FALSE, ret |-> NoHash]

add_dir(c, name, parent_arg, clock) ==
    LET parent == IF parent_arg = NoHash THEN c.source_hash ELSE parent_arg
    IN IF ParentAllowed(c, parent)
       THEN LET r == add_node(c, name, parent, TYPE_DIR, 0, <<>>, FALSE, clock)
            IN [cs |-> r.cs, ok |-> TRUE, ret |-> r.ret]
       ELSE [cs |-> c, ok |-> FALSE, ret |-> NoHash]

\* ------------------------------------------------- remove_hash / clean_data
RECURSIVE remove_hash(_,_)
RECURSIVE CleanLoop(_,_,_)
\* The loop of clean_data over tuple(self.index.keys()), from key i on:
\* [cs, raised]. raised is the FileNotFoundError of os.remove on a CHUNK that
\* has no data file; it ends the loop and every remove_hash above it.
CleanLoop(c, keys, i) ==
    IF i > Len(keys) THEN [cs |-> c, raised |-> FALSE]
    ELSE LET h == keys[i]
         IN IF has_node(c, h)
               /\ ~has_node(c, get_node_obj(c, h).parent)
               /\ get_node_obj(c, h).type # TYPE_SRC
            THEN IF get_node_obj(c, h).type = TYPE_CHUNK /\ ~is_file(c, h)
                 THEN [cs |-> c, raised |-> TRUE]
                 ELSE LET c1 == IF get_node_obj(c, h).type = TYPE_CHUNK
                                THEN [c EXCEPT !.files =
                                        [f \in DOMAIN c.files \ {h} |-> c.files[f]]]
                                ELSE c
                          r == remove_hash(c1, h)
                      IN IF r.raised THEN [cs |-> r.cs, raised |-> TRUE]
                         ELSE CleanLoop(r.cs, keys, i + 1)
            ELSE CleanLoop(c, keys, i + 1)

clean_data(c) == CleanLoop(c, KeySeq(c.index), 1)

\* remove_hash: [cs, ret, raised]
remove_hash(c, hash_id) ==
    IF has_node(c, hash_id) /\ get_node_obj(c, hash_id).type # TYPE_SRC
    THEN LET r == clean_data([c EXCEPT !.index = PopNode(c.index, hash_id)])
         IN [cs |-> r.cs, ret |-> ~r.raised, raised |-> r.raised]
    ELSE [cs |-> c, ret |-> FALSE, raised |-> FALSE]

\* ------------------------------------------------ node dictionaries (JSON)
\* One value of a node dictionary. shape says what the value is: "ok" a
\* dictionary with every key cid_builder reads, "missing_key" a dictionary
\* without one of them, "not_a_dict" any other JSON value.
Entry(node, shape) ==
    [hash |-> node.hash, name |-> node.name, time_stamp |-> node.time_stamp,
     size |-> node.size, parent |-> node.parent, children |-> node.children,
     type |-> node.type, is_stored |-> node.is_stored, shape |-> shape]

\* Cid.dump, as json.dumps writes it and json.loads reads it back
dump(node) == Entry(node, "ok")

\* cid_builder, for a value it accepts: is_stored is not read
cid_builder(e) ==
    Cid(e.hash, e.name, e.time_stamp, e.size, e.parent, e.children, FALSE, e.type)

\* What a request or a response carries: nothing, bytes, or a JSON text.
NoPayload == [kind |-> "none", bytes |-> <<>>, dict |-> <<>>]
RawPayload(b) == [kind |-> "raw", bytes |-> b, dict |-> <<>>]
DictPayload(d) == [kind |-> "dict", bytes |-> <<>>, dict |-> d]

RECURSIVE AddDictLoop(_,_,_,_)
\* The loop of add_node_dict from value i on: [cs, updated, raised]. updated
\* lists the send_update_callback calls, each with what updated_hash_callback
\* reads at that moment; raised is the TypeError of cid_builder on a value
\* that is no dictionary.
AddDictLoop(c, node_dict, i, updated) ==
    IF i > Len(node_dict) THEN [cs |-> c, updated |-> updated, raised |-> FALSE]
    ELSE LET e == node_dict[i]
         IN IF e.shape = "not_a_dict"
            THEN [cs |-> c, updated |-> updated, raised |-> TRUE]
            ELSE IF e.shape = "ok" /\ ~has_node(c, e.hash)
            THEN With([c EXCEPT !.index = Append(@, cid_builder(e))], LAMBDA c1 :
                   With(check_is_stored(c1, e.hash),
                        LAMBDA r :
                     With(Append(updated, [hash |-> e.hash, type |-> e.type,
                                           size |-> e.size, stored |-> r.ret]),
                          LAMBDA called :
                             AddDictLoop(r.cs, node_dict, i + 1, called))))
            ELSE AddDictLoop(c, node_dict, i + 1, updated)

\* add_node_dict without its membership test: a node of the dictionary
\* replaces the entry the index has for its hash.
add_node_dict_overwrites(c, node_dict) ==
    AddDictLoop([c EXCEPT !.index =
                   SelectSeq(@, LAMBDA n :
                       \A i \in 1..Len(node_dict) : node_dict[i].hash # n.hash)],
                node_dict, 1, <<>>)

add_node_dict(c, node_dict) == AddDictLoop(c, node_dict, 1, <<>>)

\* add_data: [cs, updated, raised]. A "raw" payload is bytes that are no JSON
\* text (json.loads raises); the bytes of a "dict" payload hash to no chunk.
add_data(c, hash, payload, clock) ==
    LET parse == IF payload.kind = "dict" THEN add_node_dict(c, payload.dict)
                 ELSE [cs |-> c, updated |-> <<>>, raised |-> TRUE]
        same == [cs |-> c, updated |-> <<>>, raised |-> FALSE]
    IN IF has_node(c, hash) /\ get_parent_hashes(c, hash) # <<>>
       THEN With(get_node_obj(c, hash), LAMBDA node :
              LET source == get_parent_hashes(c, hash)
              IN IF is_storage_hash(c, hash)
                 THEN IF payload.kind = "raw"
                         /\ hash = get_data_hash(c, node.parent, payload.bytes, FALSE)
                      THEN With(add_node(c, node.name, node.parent, node.type,
                                         node.time_stamp, payload.bytes, TRUE,
                                         clock), LAMBDA r :
                                [cs |-> r.cs, updated |-> <<>>, raised |-> r.raised])
                      ELSE same
                 ELSE IF source[1] # c.source_hash THEN parse
                 ELSE same)
       ELSE parse

\* ------------------------------------------------------------- get_node
\* dict.update(other) on insertion-ordered dictionaries keyed by hash
UpdateDict(d, other) ==
    LET F[i \in 0..Len(other)] ==
            IF i = 0 THEN d
            ELSE With(F[i - 1], LAMBDA merged :
                   LET e == other[i]
                       hit == {j \in 1..Len(merged) : merged[j].hash = e.hash}
                   IN IF hit = {} THEN Append(merged, e)
                      ELSE [merged EXCEPT ![CHOOSE j \in hit : TRUE] = e])
    IN F[Len(other)]

\* get_node_information without its loop over node.children.
get_node_information_flat(c, hash, initial_req) ==
    IF has_node(c, hash) THEN <<dump(get_node_obj(c, hash))>> ELSE <<>>

\* get_node_information with the loop, but without the recursive call: the
\* node and those of its children the index has.
get_node_information_shallow(c, hash, initial_req) ==
    IF ~has_node(c, hash) THEN <<>>
    ELSE <<dump(get_node_obj(c, hash))>>
         \o SelectSeq([i \in 1..Len(c.index) |-> dump(c.index[i])],
                      LAMBDA e : /\ e.hash # hash
                                 /\ e.hash \in Range(get_node_obj(c, hash).children))

RECURSIVE get_node_information(_,_,_)
get_node_information(c, hash, initial_req) ==
    IF ~has_node(c, hash) THEN <<>>
    ELSE With(get_node_obj(c, hash), LAMBDA node :
           LET F[i \in 0..Len(node.children)] ==
                   IF i = 0 THEN <<dump(node)>>
                   ELSE With(F[i - 1], LAMBDA node_dict :
                          IF node.children[i] \in Keys(node_dict) THEN node_dict
                          ELSE With(get_node_information(c, node.children[i], FALSE),
                                    LAMBDA below : UpdateDict(node_dict, below)))
           IN IF node.type # TYPE_FILE \/ initial_req
              THEN F[Len(node.children)] ELSE <<dump(node)>>)

get_sources(c) ==
    LET F[i \in 0..Len(c.index)] ==
            IF i = 0 THEN <<>>
            ELSE IF c.index[i].type = TYPE_SRC THEN Append(F[i - 1], dump(c.index[i]))
            ELSE F[i - 1]
    IN F[Len(c.index)]

\* get_data without the comparison of the bytes read with the node's hash.
get_data_unverified(c, hash) ==
    IF ~has_node(c, hash) THEN [cs |-> c, payload |-> NoPayload]
    ELSE IF is_file(c, hash)
    THEN [cs |-> c, payload |-> RawPayload(c.files[hash])]
    ELSE [cs |-> [c EXCEPT !.index[Pos(c.index, hash)].is_stored = FALSE],
          payload |-> NoPayload]

\* get_data: [cs, payload]
get_data(c, hash) ==
    IF ~has_node(c, hash) THEN [cs |-> c, payload |-> NoPayload]
    ELSE IF is_file(c, hash)
    THEN [cs |-> c,
          payload |-> IF hash = get_data_hash(c, get_node_obj(c, hash).parent,
                                              c.files[hash], FALSE)
                      THEN RawPayload(c.files[hash]) ELSE NoPayload]
    ELSE [cs |-> [c EXCEPT !.index[Pos(c.index, hash)].is_stored = FALSE],
          payload |-> NoPayload]

\* get_node: [cs, payload]; check_is_stored refreshes is_stored first
get_node(c, hash) ==
    IF hash = NoHash THEN [cs |-> c, payload |-> DictPayload(get_sources(c))]
    ELSE With(check_is_stored(c, hash).cs, LAMBDA c1 :
           IF ~has_node(c1, hash) THEN [cs |-> c1, payload |-> NoPayload]
           ELSE IF get_node_obj(c1, hash).type # TYPE_CHUNK
           THEN [cs |-> c1,
                 payload |-> DictPayload(get_node_information(c1, hash, TRUE))]
           ELSE get_data(c1, hash))

\* ----------------------------------------------------- source checksum
RECURSIVE Insert(_,_)
\* Hashes are ordered as Python orders the hex strings; here by length and
\* then element by element, which is a total order too.
RECURSIVE SeqLess(_,_)
SeqLess(a, b) ==
    IF Len(a) # Len(b) THEN Len(a) < Len(b)
    ELSE IF a = <<>> THEN FALSE
    ELSE IF Head(a) # Head(b) THEN Head(a) < Head(b)
    ELSE SeqLess(Tail(a), Tail(b))

Insert(x, s) ==
    IF s = <<>> THEN <<x>>
    ELSE IF SeqLess(Head(s), x) THEN <<Head(s)>> \o Insert(x, Tail(s))
    ELSE <<x>> \o s

RECURSIVE sorted(_)
sorted(s) ==
    IF s = <<>> THEN <<>>
    ELSE With(sorted(Tail(s)), LAMBDA rest : Insert(Head(s), rest))

\* str(list).encode('utf8'): the hashes in order, each kept apart
StrOfList(s) == <<-5>> \o Flatten(s) \o <<-6>>

get_source_checksum(c, source_hash) ==
    With(get_children(c, source_hash, FALSE), LAMBDA children :
         With(StrOfList(sorted(children)), LAMBDA text :
              get_data_hash(c, NoHash, text, FALSE)))

\* ------------------------------------------------------- get_file_data
RECURSIVE ReadChunks(_,_,_)
\* The loop of get_file_data over node.children from child i on: the bytes
\* get_node returns for each child, concatenated (a child without bytes
\* adds nothing).
ReadChunks(c, children, i) ==
    IF i > Len(children) THEN <<>>
    ELSE LET r == get_node(c, children[i])
         IN (IF r.payload.kind = "raw" THEN r.payload.bytes ELSE <<>>)
            \o ReadChunks(r.cs, children, i + 1)

\* get_file_data, its first branch: the bytes returned for a FILE that
\* check_is_stored reports stored, or NoPayload
get_file_data(c, node_hash) ==
    IF has_node(c, node_hash) /\ check_is_stored_ret(c, node_hash)
       /\ get_node_obj(c, node_hash).type = TYPE_FILE
    THEN LET c1 == check_is_stored(c, node_hash).cs
             node == get_node_obj(c1, node_hash)
             data == ReadChunks(c1, node.children, 1)
         IN IF node.hash = get_data_hash(c1, node.parent, data, TRUE)
            THEN RawPayload(data) ELSE NoPayload
    ELSE NoPayload

\* ------------------------------------------------------------- the peer
\* The store of the peer that owns PeerSrc: a directory holding one file of
\* one chunk.
PeerInit ==
    LET s0 == NewStore(PeerSrc, "peer", 1)
        d == add_dir(s0, Name("pd"), NoHash, 1)
        f == add_file(d.cs, Name("pf"), <<1>>, d.ret, 1)
    IN f.cs

\* What a peer answers to a request: what its get_node returns, or any bytes.
PeerPayloads ==
    {get_node(PeerInit, h).payload : h \in Keys(PeerInit.index)}
    \cup {RawPayload(b) : b \in SeqsUpTo(Bytes, ChunkSize) \ {<<>>}}

FileNames == {"f"}
DirNames == {"d", "e"}

\* Hashes a caller can name: those of the index, one that may not be in it,
\* and none.
HashArgs == Keys(cs.index) \cup {PeerSrc, NoHash}

\* ================================================ the replication engine
\* The destination hex hash of a peer that is not in allowed_peers.
StrangerSrc == <<-3, 3>>
Peers == {PeerSrc, StrangerSrc}

\* A node's settings: its destination hex hash, allowed_peers, allow_all.
OwnCfg == [hexhash |-> OwnSrc, allowed_peers |-> {PeerSrc}, allow_all |-> FALSE]
PeerCfg == [hexhash |-> PeerSrc, allowed_peers |-> {OwnSrc}, allow_all |-> FALSE]

\* The permission test left out: every source passes.
Allowed_any(cfg, source) == TRUE

\* source in self.allowed_peers or self.allow_all
Allowed(cfg, source) == source \in cfg.allowed_peers \/ cfg.allow_all

\* RNS.Identity.recall(source) finds the identity of a destination whose
\* announce was heard.
recall(source) == source \in Peers

REQUEST_HASH_ID == <<"RH">>
NODE_PRESENT_ID == <<"NP">>
NEW_HASH_ID == <<"NH">>
CHECKSUM_ID == <<"CS">>

\* (prefix + hexhash + hash).encode('utf8'); a prefix is one symbol here
Packet(prefix, source, hash) == prefix \o source \o hash

breakdown_broadcast_data(data, prefix_len, source_len) ==
    IF Len(data) > prefix_len + source_len
    THEN [ok |-> TRUE,
          prefix |-> SubSeq(data, 1, prefix_len),
          source |-> SubSeq(data, prefix_len + 1, prefix_len + source_len),
          hash |-> SubSeq(data, prefix_len + source_len + 1, Len(data))]
    ELSE [ok |-> FALSE, prefix |-> <<>>, source |-> <<>>, hash |-> <<>>]

\* desired_hash_translation_map[hash] = (sources, attempts, next_allowed_time)
Want(hash, sources, attempts, next_allowed_time) ==
    [hash |-> hash, sources |-> sources, attempts |-> attempts,
     next_allowed_time |-> next_allowed_time]

\* attempts += 1
Bump(attempts) == IF attempts < MaxAttempts THEN attempts + 1 ELSE attempts

\* The part of RNSInterface a handler writes: r = [desired, outbox].
Rns(d, out) == [desired |-> d, outbox |-> out]

\* make_hash_desire_request without its membership test: the entry is
\* written on every call.
make_hash_desire_request_resets(cfg, r, hash_str, clock) ==
    Rns(PutNode(r.desired, Want(hash_str, <<>>, 0, clock + RetryDelay)),
        r.outbox \cup {Packet(REQUEST_HASH_ID, cfg.hexhash, hash_str)})

make_hash_desire_request(cfg, r, hash_str, clock) ==
    Rns(IF hash_str \in Keys(r.desired) THEN r.desired
        ELSE Append(r.desired, Want(hash_str, <<>>, 0, clock + RetryDelay)),
        r.outbox \cup {Packet(REQUEST_HASH_ID, cfg.hexhash, hash_str)})

\* updated_hash_callback without its test of the size.
updated_hash_callback_any_size(cfg, r, u, clock) ==
    IF u.type \in {TYPE_CHUNK, TYPE_FILE} /\ ~u.stored
    THEN make_hash_desire_request(cfg, r, u.hash, clock)
    ELSE r

\* ServerCommandState.updated_hash_callback for one send_update_callback;
\* u holds what the callback reads of the node.
updated_hash_callback(cfg, r, u, clock) ==
    IF /\ u.type \in {TYPE_CHUNK, TYPE_FILE}
       /\ (u.size < max_file_size \/ max_file_size = -1)
       /\ ~u.stored
    THEN make_hash_desire_request(cfg, r, u.hash, clock)
    ELSE r

RECURSIVE send_update_callback(_,_,_,_,_)
\* The callbacks of one add_node_dict, in the order of its insertions.
send_update_callback(cfg, r, updated, i, clock) ==
    IF i > Len(updated) THEN r
    ELSE With(updated_hash_callback(cfg, r, updated[i], clock), LAMBDA r1 :
              send_update_callback(cfg, r1, updated, i + 1, clock))

handle_announce(cfg, c, r, destination_hash, app_data, clock) ==
    IF app_data # <<>> /\ Allowed(cfg, destination_hash)
    THEN IF \/ get_source_checksum(c, destination_hash)
                    # SubSeq(app_data, Len(CHECKSUM_ID) + 1, Len(app_data))
            \/ ~has_node(c, destination_hash)
         THEN make_hash_desire_request(cfg, r, destination_hash, clock)
         ELSE r
    ELSE r

\* handle_hash_request: [cs, threads]. threads is empty, or the
\* delayed_broadcast threads random.random() can lead to (one is started).
\* handle_hash_request without the test of check_is_stored and of the type:
\* every node of the index is answered for.
handle_hash_request_any(cfg, c, source, hash) ==
    IF has_node(c, hash) /\ Allowed(cfg, source)
    THEN [cs |-> check_is_stored(c, hash).cs,
          threads |-> {[data |-> Packet(NODE_PRESENT_ID, cfg.hexhash, hash),
                        delay |-> 5]}]
    ELSE [cs |-> c, threads |-> {}]

handle_hash_request(cfg, c, source, hash) ==
    IF has_node(c, hash) /\ Allowed(cfg, source)
    THEN With(check_is_stored(c, hash), LAMBDA st :
           LET parents == get_parent_hashes(st.cs, hash)
               src == IF parents # <<>> THEN parents[1] ELSE hash
               data == Packet(NODE_PRESENT_ID, cfg.hexhash, hash)
           IN [cs |-> st.cs,
               threads |->
                  IF st.ret \/ get_node_obj(c, hash).type # TYPE_CHUNK
                  THEN IF src = c.source_hash
                       THEN {[data |-> data, delay |-> 5]}
                       ELSE {[data |-> data, delay |-> d] : d \in {30, 59}}
                  ELSE {}])
    ELSE [cs |-> c, threads |-> {}]

\* handle_node_present without its last line: the provider is not recorded.
handle_node_present_forgets(cfg, d, source, hash) == d

handle_node_present(cfg, d, source, hash) ==
    IF hash \in Keys(d) /\ Allowed(cfg, source) /\ recall(source)
    THEN [d EXCEPT ![Pos(d, hash)].sources = Append(@, source)]
    ELSE d

handle_new_hash(cfg, r, source, hash, clock) ==
    IF Allowed(cfg, source) THEN make_hash_desire_request(cfg, r, hash, clock)
    ELSE r

\* broadcast_handler: [cs, desired, outbox, threads]
broadcast_handler(cfg, c, r, data, clock) ==
    With(breakdown_broadcast_data(data, Len(REQUEST_HASH_ID), Len(cfg.hexhash)),
         LAMBDA decomposed :
      LET prefix == decomposed.prefix
          source == decomposed.source
          hash == decomposed.hash
          same == [cs |-> c, desired |-> r.desired, outbox |-> r.outbox,
                   threads |-> {}]
      IN IF ~decomposed.ok THEN same
         ELSE IF prefix = REQUEST_HASH_ID
         THEN With(handle_hash_request(cfg, c, source, hash), LAMBDA q :
                   [same EXCEPT !.cs = q.cs, !.threads = q.threads])
         ELSE IF prefix = NODE_PRESENT_ID
         THEN [same EXCEPT
                 !.desired = handle_node_present(cfg, r.desired, source, hash)]
         ELSE IF prefix = NEW_HASH_ID
         THEN With(handle_new_hash(cfg, r, source, hash, clock), LAMBDA q :
                   [same EXCEPT !.desired = q.desired, !.outbox = q.outbox])
         ELSE same)

\* client_connected and client_disconnected on one link: [linked, status].
\* teardown() runs the link's closed callback, client_disconnected.
\* client_disconnected without its last line.
client_disconnected_keeps(linked) == linked

client_disconnected(linked) == FALSE

client_connected(linked) ==
    IF linked THEN [linked |-> client_disconnected(linked), status |-> "closed"]
    ELSE [linked |-> TRUE, status |-> "active"]

\* An RNS.Link: who opened it, where it stands, the peer at the other end.
Link(dir, status, remote) == [dir |-> dir, status |-> status, remote |-> remote]

ActiveLinks == {l \in DOMAIN links : links[l].status = "active"}

\* got_response_data for the response to the request of link l:
\* [cs, desired, outbox, ids, linked, status, raised]. raised is an exception
\* that leaves the handler: of json.loads or cid_builder inside add_data, or
\* the KeyError of desired_hash_translation_map.pop.
got_response_data(cfg, c, r, ids, linked, l, response, clock) ==
    LET hash_str == ids[l]
        ids1 == [k \in DOMAIN ids \ {l} |-> ids[k]]
    IN IF response.kind = "none"
       THEN [cs |-> c, desired |-> r.desired, outbox |-> r.outbox, ids |-> ids,
             linked |-> client_disconnected(linked), status |-> "closed",
             raised |-> FALSE]
       ELSE With(add_data(c, hash_str, response, clock), LAMBDA a :
            With(send_update_callback(cfg, r, a.updated, 1, clock), LAMBDA r1 :
              IF a.raised
              THEN [cs |-> a.cs, desired |-> r1.desired, outbox |-> r1.outbox,
                    ids |-> ids, linked |-> linked, status |-> "active",
                    raised |-> TRUE]
              ELSE IF hash_str \notin Keys(r1.desired)
              THEN [cs |-> a.cs, desired |-> r1.desired, outbox |-> r1.outbox,
                    ids |-> ids1, linked |-> linked, status |-> "active",
                    raised |-> TRUE]
              ELSE [cs |-> a.cs, desired |-> PopNode(r1.desired, hash_str),
                    outbox |-> r1.outbox, ids |-> ids1,
                    linked |-> client_disconnected(linked), status |-> "closed",
                    raised |-> FALSE]))

\* ServerCommandState.cancel_request: [desired, ids, closes, raised]. It
\* calls self.rns_interface.cancel_request, which RNSInterface does not
\* define: the AttributeError (raised) leaves every table as it is.
cancel_request(d, ids, id) ==
    [desired |-> d, ids |-> ids, closes |-> {}, raised |-> TRUE]

\* ---------------------------------------------- the scheduler thread
\* pc: "sleep" in time.sleep(1) and the wait for currently_linked, "loop"
\* inside the for loop at keys[i], "wait" inside make_hash_req waiting for
\* link.rtt, "dead" ended by an exception. acts counts the make_hash_req and
\* make_hash_desire_request calls of the pass; sources and attempts are the
\* loop's local variables while make_hash_req runs.
Asleep(acts) ==
    [pc |-> "sleep", keys |-> <<>>, i |-> 0, acts |-> acts, sources |-> <<>>,
     attempts |-> 0, link |-> 0]

\* The for loop moves to the next key, or the pass ends.
Advance(s) ==
    IF s.i >= Len(s.keys) THEN Asleep(s.acts)
    ELSE [s EXCEPT !.pc = "loop", !.i = @ + 1, !.sources = <<>>,
                   !.attempts = 0, !.link = 0]

\* Every variable as the constructors leave it.
Init ==
    /\ cs = NewStore(OwnSrc, "own", 1)
    /\ now = 1
    /\ last = [op |-> "init", arg |-> NoHash, data |-> <<>>, ret |-> NoHash,
               ok |-> TRUE, raised |-> FALSE, updated |-> <<>>]
    /\ ops = 0
    /\ desired = <<>>
    /\ request_id_to_hash = [k \in {} |-> NoHash]
    /\ currently_linked = FALSE
    /\ links = [k \in {} |-> Link("in", "active", PeerSrc)]
    /\ sched = Asleep(0)
    /\ pending = {}
    /\ outbox = {}
    /\ inbox = {}
    /\ peer = PeerInit
    /\ peer_linked = FALSE

\* ================================================= the store on its own
Record(op, arg, data, ret, ok, raised, updated) ==
    [op |-> op, arg |-> arg, data |-> data, ret |-> ret, ok |-> ok,
     raised |-> raised, updated |-> updated]

\* ServerCommandState.upload_file: add_file, then save_index
UploadFile(file_name, file_data, parent) ==
    LET r == add_file(cs, Name(file_name), file_data, parent, now)
    IN /\ Len(r.cs.index) <= MaxNodes
       /\ cs' = r.cs
       /\ last' = Record("add_file", parent, file_data, r.ret, r.ok, FALSE, <<>>)
       /\ UNCHANGED now

\* ServerCommandState.make_dir: add_dir, then save_index
MakeDir(name, parent) ==
    LET r == add_dir(cs, Name(name), parent, now)
    IN /\ Len(r.cs.index) <= MaxNodes
       /\ cs' = r.cs
       /\ last' = Record("add_dir", parent, <<>>, r.ret, r.ok, FALSE, <<>>)
       /\ UNCHANGED now

\* ServerCommandState.delete_node: remove_hash, then save_index
DeleteNode(id) ==
    LET r == remove_hash(cs, id)
    IN /\ cs' = r.cs
       /\ last' = Record("remove_hash", id, <<>>, NoHash, r.ret, r.raised, <<>>)
       /\ UNCHANGED now

\* CidStore.add_data, as got_response_data calls it with a response
AddData(hash, payload) ==
    LET r == add_data(cs, hash, payload, now)
    IN /\ payload.kind # "none"
       /\ Len(r.cs.index) <= MaxNodes
       /\ cs' = r.cs
       /\ last' = Record("add_data", hash, payload.bytes, NoHash, ~r.raised,
                         r.raised, r.updated)
       /\ UNCHANGED now

\* CidStore.add_node_dict
AddNodeDict(node_dict) ==
    LET r == add_node_dict(cs, node_dict)
    IN /\ Len(r.cs.index) <= MaxNodes
       /\ cs' = r.cs
       /\ last' = Record("add_node_dict", NoHash, <<>>, NoHash, ~r.raised,
                         r.raised, r.updated)
       /\ UNCHANGED now

\* The environment: the bytes of a data file change on disk.
CorruptFile(h, b) ==
    /\ h \in DOMAIN cs.files
    /\ b # cs.files[h]
    /\ cs' = [cs EXCEPT !.files[h] = b]
    /\ last' = Record("corrupt", h, b, NoHash, TRUE, FALSE, <<>>)
    /\ UNCHANGED now

\* The environment: a second passes.
Tick ==
    /\ now < MaxTime
    /\ now' = now + 1
    /\ UNCHANGED <<cs, last, ops, netvars>>

StoreStep ==
    /\ ops < MaxOps
    /\ ops' = ops + 1
    /\ UNCHANGED netvars

StoreNext ==
    \/ \E n \in FileNames, d \in Datas, p \in HashArgs : StoreStep /\ UploadFile(n, d, p)
    \/ \E n \in DirNames, p \in HashArgs : StoreStep /\ MakeDir(n, p)
    \/ \E h \in HashArgs : StoreStep /\ DeleteNode(h)
    \/ \E h \in HashArgs \ {NoHash}, p \in PeerPayloads : StoreStep /\ AddData(h, p)
    \/ \E p \in {q \in PeerPayloads : q.kind = "dict"} : StoreStep /\ AddNodeDict(p.dict)
    \/ \E h \in HashArgs, b \in SeqsUpTo(Bytes, ChunkSize) \ {<<>>} : StoreStep /\ CorruptFile(h, b)
    \/ Tick

StoreSpec == Init /\ [][StoreNext]_vars

\* ================================== the store under its owner's calls
\* The owner's user uploads files, makes directories and deletes nodes;
\* nothing arrives from the network.
TreeNext ==
    \/ \E n \in FileNames, d \in Datas, p \in HashArgs :
          StoreStep /\ UploadFile(n, d, p)
    \/ \E n \in DirNames, p \in HashArgs : StoreStep /\ MakeDir(n, p)
    \/ \E h \in HashArgs : StoreStep /\ DeleteNode(h)

TreeSpec == Init /\ [][TreeNext]_vars

\* ====================================== the store and forged metadata
\* A peer answers with a node dictionary it has made up: two nodes that name
\* this node's SRC as parent and each other as child, one of them typed
\* CHUNK. add_node_dict takes what cid_builder accepts.
ForgedA == <<-4, 1>>
ForgedB == <<-4, 2>>
ForgedDicts ==
    LET a == dump(Cid(ForgedA, Name("a"), 1, 0, OwnSrc, <<ForgedB>>, FALSE, TYPE_CHUNK))
        b == dump(Cid(ForgedB, Name("b"), 1, 0, OwnSrc, <<ForgedA>>, FALSE, TYPE_DIR))
    IN {<<a, b>>, <<b, a>>, <<b>>}

CycleNext ==
    \/ \E d \in ForgedDicts \cup {q.dict : q \in {p \in PeerPayloads : p.kind = "dict"}} :
          StoreStep /\ AddNodeDict(d)
    \/ \E n \in DirNames, p \in HashArgs : StoreStep /\ MakeDir(n, p)
    \/ \E h \in HashArgs : StoreStep /\ DeleteNode(h)

CycleSpec == Init /\ [][CycleNext]_vars

\* ============================================ one node and the network
\* Hashes the network names: this node's source, the peer's source, and the
\* peer's FILE and CHUNK nodes.
NetHashes ==
    {OwnSrc, PeerSrc}
    \cup {h \in Keys(PeerInit.index) :
             get_node_obj(PeerInit, h).type \in {TYPE_FILE, TYPE_CHUNK}}

\* Broadcast packets the network can bring; one has no hash after its header.
NetPackets ==
    {Packet(p, s, h) : p \in {REQUEST_HASH_ID, NODE_PRESENT_ID, NEW_HASH_ID},
                       s \in Peers, h \in NetHashes \cup {NoHash}}

\* The app_data of announces: none, the checksum of the peer's source as it
\* is, and as it was when the source was empty.
AnnounceData ==
    {<<>>,
     CHECKSUM_ID \o get_source_checksum(PeerInit, PeerSrc),
     CHECKSUM_ID \o get_source_checksum(NewStore(PeerSrc, "peer", 1), PeerSrc)}

\* Python dict assignment and pop on a dictionary given as a function.
MapPut(f, k, v) == [x \in DOMAIN f \cup {k} |-> IF x = k THEN v ELSE f[x]]
MapDel(f, k) == [x \in DOMAIN f \ {k} |-> f[x]]

\* Link ids (and the request ids of their requests) not in use: of no open
\* link and of no entry of request_id_to_hash.
FreeIds == (1..MaxLinks) \ (DOMAIN links \cup DOMAIN request_id_to_hash)
NewId == CHOOSE k \in FreeIds : \A j \in FreeIds : k <= j

\* The entry of hash in the desired table d.
Wanted(d, hash) == d[Pos(d, hash)]

\* One packet, announce or incoming link out of the MaxEvents of a behaviour.
NetStep ==
    /\ ops < MaxEvents
    /\ ops' = ops + 1

\* service_desired_hash_list: sleep(1), the wait for currently_linked to be
\* false, tuple(self.desired_hash_translation_map.keys()).
SchedulerWake ==
    /\ sched.pc = "sleep"
    /\ ~currently_linked
    /\ sched' = IF desired = <<>> THEN Asleep(0)
                ELSE [Asleep(0) EXCEPT !.pc = "loop", !.keys = KeySeq(desired),
                                       !.i = 1]
    /\ UNCHANGED <<storevars, desired, request_id_to_hash, currently_linked,
                   links, pending, outbox, inbox, peer, peer_linked>>

\* One pass of the for loop, up to the wait inside make_hash_req. made_request
\* is False whenever it is read.
ServiceEntry ==
    /\ sched.pc = "loop"
    /\ LET hash == sched.keys[sched.i]
       IN IF hash \notin Keys(desired)
          THEN /\ sched' = [sched EXCEPT !.pc = "dead"]
               /\ UNCHANGED <<desired, links, outbox>>
          ELSE LET e == Wanted(desired, hash)
               IN IF e.sources # <<>>
                  THEN LET rotated == Tail(e.sources) \o <<Head(e.sources)>>
                       IN /\ FreeIds # {}
                          /\ desired' = [desired EXCEPT
                                           ![Pos(desired, hash)].sources = rotated]
                          /\ links' = MapPut(links, NewId,
                                             Link("out", "pending", Head(e.sources)))
                          /\ sched' = [sched EXCEPT
                                         !.pc = "wait", !.acts = @ + 1,
                                         !.sources = rotated,
                                         !.attempts = e.attempts,
                                         !.link = NewId]
                          /\ UNCHANGED outbox
                  ELSE LET acted == now > e.next_allowed_time
                           r == IF acted
                                THEN make_hash_desire_request(
                                         OwnCfg, Rns(desired, outbox), hash, now)
                                ELSE Rns(desired, outbox)
                       IN /\ desired' = PutNode(r.desired,
                                            Want(hash, e.sources, Bump(e.attempts),
                                                 now + RetryDelay))
                          /\ outbox' = r.outbox
                          /\ sched' = Advance([sched EXCEPT !.acts =
                                                 IF acted THEN @ + 1 ELSE @])
                          /\ UNCHANGED links
    /\ UNCHANGED <<storevars, request_id_to_hash, currently_linked, pending,
                   inbox, peer, peer_linked>>

\* make_hash_req from the end of its wait: the link l is established (link.rtt
\* is set and client_connected runs), the peer keeps it or closes it, the
\* request is made if the link is still open, and the loop writes the entry
\* back. A request on a closed link yields no receipt.
LinkUp(l, remote_closes) ==
    /\ sched.pc = "wait"
    /\ sched.link = l
    /\ l \in DOMAIN links
    /\ links[l].status = "pending"
    /\ LET hash == sched.keys[sched.i]
           mine == client_connected(currently_linked)
           open == mine.status = "active" /\ ~remote_closes
           sources == IF hash \in Keys(desired)
                      THEN Wanted(desired, hash).sources
                      ELSE sched.sources
       IN /\ links' = IF open THEN [links EXCEPT ![l].status = "active"]
                       ELSE MapDel(links, l)
          /\ currently_linked' = IF open THEN mine.linked
                                 ELSE client_disconnected(mine.linked)
          /\ request_id_to_hash' =
                IF open THEN MapPut(request_id_to_hash, l, hash)
                ELSE request_id_to_hash
          /\ desired' = PutNode(desired, Want(hash, sources, Bump(sched.attempts),
                                              now + RetryDelay))
          /\ Len(desired') <= MaxDesired
          /\ sched' = Advance(sched)
    /\ UNCHANGED <<storevars, pending, outbox, inbox, peer>>

\* The link make_hash_req waits for is closed before it is established: its
\* closed callback runs, link.rtt stays unset.
LinkNeverUp(l) ==
    /\ l \in DOMAIN links
    /\ links[l].dir = "out"
    /\ links[l].status = "pending"
    /\ links' = MapDel(links, l)
    /\ currently_linked' = client_disconnected(currently_linked)
    /\ UNCHANGED <<storevars, desired, request_id_to_hash, sched, pending,
                   outbox, inbox, peer, peer_linked>>

\* A peer's link to this node's destination is established: client_connected.
IncomingLink(remote) ==
    /\ FreeIds # {}
    /\ LET mine == client_connected(currently_linked)
       IN /\ links' = IF mine.status = "active"
                       THEN MapPut(links, NewId, Link("in", "active", remote))
                       ELSE links
          /\ currently_linked' = mine.linked
    /\ UNCHANGED <<cs, now, last, desired, request_id_to_hash, sched, pending,
                   outbox, inbox, peer, peer_linked>>

\* An established link is closed by the peer or times out (a request that
\* fails ends this way, after failed_response has logged it).
LinkClosed(l) ==
    /\ l \in ActiveLinks
    /\ links' = MapDel(links, l)
    /\ currently_linked' = client_disconnected(currently_linked)
    /\ UNCHANGED <<storevars, desired, request_id_to_hash, sched, pending,
                   outbox, inbox, peer, peer_linked>>

\* request_handler on an incoming link: get_node(hash_str)
RequestHandler(l, hash_str) ==
    /\ l \in ActiveLinks
    /\ links[l].dir = "in"
    /\ cs' = get_node(cs, hash_str).cs
    /\ UNCHANGED <<now, last, ops, netvars>>

\* GET /cancel/<id>: RNFSView.cancel_request, ServerCommandState.cancel_request
CancelRequest(id) ==
    \E r \in {cancel_request(desired, request_id_to_hash, id)} :
        /\ desired' = r.desired
        /\ request_id_to_hash' = r.ids
        /\ links' = [l \in DOMAIN links \ r.closes |-> links[l]]
        /\ UNCHANGED <<storevars, currently_linked, sched, pending, outbox,
                       inbox, peer, peer_linked>>

\* The response to the request of link l arrives: got_response_data.
Response(l, response) ==
    /\ l \in ActiveLinks
    /\ l \in DOMAIN request_id_to_hash
    /\ UNCHANGED <<now, last, ops, sched, pending, inbox>>
    /\ \E g \in {got_response_data(OwnCfg, cs, Rns(desired, outbox),
                                    request_id_to_hash, currently_linked, l,
                                    response, now)} :
          /\ Len(g.cs.index) <= MaxNodes
          /\ Len(g.desired) <= MaxDesired
          /\ cs' = g.cs
          /\ desired' = g.desired
          /\ outbox' = g.outbox
          /\ request_id_to_hash' = g.ids
          /\ currently_linked' = g.linked
          /\ links' = IF g.status = "closed" THEN MapDel(links, l) ELSE links

\* An announce of destination_hash arrives: handle_announce.
RecvAnnounce(destination_hash, app_data) ==
    /\ UNCHANGED <<cs, now, last, request_id_to_hash, currently_linked, links,
                   sched, pending, inbox, peer, peer_linked>>
    /\ \E r \in {handle_announce(OwnCfg, cs, Rns(desired, outbox),
                                  destination_hash, app_data, now)} :
          /\ Len(r.desired) <= MaxDesired
          /\ desired' = r.desired
          /\ outbox' = r.outbox

\* A broadcast packet arrives: broadcast_handler. A delayed_broadcast thread
\* it starts is asleep in pending.
RecvBroadcast(data) ==
    /\ UNCHANGED <<now, last, request_id_to_hash, currently_linked, links,
                   sched, peer, peer_linked>>
    /\ \E b \in {broadcast_handler(OwnCfg, cs, Rns(desired, outbox), data, now)} :
          /\ Len(b.desired) <= MaxDesired
          /\ \A i \in 1..Len(b.desired) : Len(b.desired[i].sources) <= MaxSources
          /\ cs' = b.cs
          /\ desired' = b.desired
          /\ outbox' = b.outbox
          /\ \/ b.threads = {} /\ UNCHANGED pending
             \/ \E t \in b.threads : pending' = pending \cup {t}

\* delayed_broadcast: the sleep is over, the packet is sent.
DelayedBroadcast(t) ==
    /\ t \in pending
    /\ pending' = pending \ {t}
    /\ outbox' = outbox \cup {t.data}
    /\ UNCHANGED <<storevars, desired, request_id_to_hash, currently_linked,
                   links, sched, inbox, peer, peer_linked>>

\* The route /deleteNode/<id> while the node is on the network:
\* ServerCommandState.delete_node, that is remove_hash and save_index.
RemoveNode(id) ==
    /\ UNCHANGED <<now, last, ops, netvars>>
    /\ \E r \in {remove_hash(cs, id)} : cs' = r.cs

\* The environment: the clock of the network specifications moves on.
Pass ==
    /\ now < MaxClock
    /\ now' = now + 1
    /\ UNCHANGED <<cs, last, ops, netvars>>

NetNext ==
    \/ SchedulerWake
    \/ ServiceEntry
    \/ \E l \in DOMAIN links, c \in BOOLEAN : LinkUp(l, c) /\ UNCHANGED peer_linked
    \/ \E l \in DOMAIN links : LinkNeverUp(l)
    \/ \E p \in Peers : NetStep /\ IncomingLink(p)
    \/ \E l \in DOMAIN links : LinkClosed(l)
    \/ \E l \in DOMAIN links, h \in NetHashes : RequestHandler(l, h)
    \/ \E l \in DOMAIN links, p \in PeerPayloads \cup {NoPayload} :
           Response(l, p) /\ UNCHANGED <<peer, peer_linked>>
    \/ \E p \in Peers, a \in AnnounceData : NetStep /\ RecvAnnounce(p, a)
    \/ \E d \in NetPackets : NetStep /\ RecvBroadcast(d) /\ UNCHANGED inbox
    \/ \E t \in pending : DelayedBroadcast(t)
    \/ \E h \in NetHashes : CancelRequest(h)
    \/ \E h \in NetHashes \cap Keys(cs.index) : RemoveNode(h)
    \/ Pass

NetSpec == Init /\ [][NetNext]_vars

\* ======================================= the scheduler and its links
\* The scheduler thread with a provider to fetch from: NH and NP packets of
\* the peer create the entries and name the peer as source, and every link
\* the scheduler opens is established or closed by the network.
WaitNext ==
    \/ SchedulerWake
    \/ ServiceEntry
    \/ \E l \in DOMAIN links, c \in BOOLEAN : LinkUp(l, c) /\ UNCHANGED peer_linked
    \/ \E l \in DOMAIN links : LinkNeverUp(l)
    \/ \E l \in DOMAIN links : LinkClosed(l)
    \/ \E h \in NetHashes, id \in {NEW_HASH_ID, NODE_PRESENT_ID} :
          NetStep /\ RecvBroadcast(Packet(id, PeerSrc, h)) /\ UNCHANGED inbox
    \/ Pass

\* The scheduler thread runs for ever; a link that can be established is
\* established unless it is closed first.
WaitFair ==
    /\ WF_vars(SchedulerWake)
    /\ WF_vars(ServiceEntry)
    /\ WF_vars(\E l \in DOMAIN links, c \in BOOLEAN : LinkUp(l, c) /\ UNCHANGED peer_linked)

WaitSpec == Init /\ [][WaitNext]_vars /\ WaitFair

\* ============================================ the scheduler and the clock
\* The scheduler thread alone with the clock: no provider ever answers and no
\* link is made. Time passes in the scheduler's sleep(1), one second a pass;
\* the pass itself takes no time. NH packets of the peer create the entries.

\* time.sleep(1) of service_desired_hash_list returns: a second has passed,
\* currently_linked is false, and the pass over the keys begins.
SleepOver ==
    /\ sched.pc = "sleep"
    /\ ~currently_linked
    /\ now < MaxClock
    /\ now' = now + 1
    /\ sched' = IF desired = <<>> THEN Asleep(0)
                ELSE [Asleep(0) EXCEPT !.pc = "loop", !.keys = KeySeq(desired),
                                       !.i = 1]
    /\ UNCHANGED <<cs, last, ops, desired, request_id_to_hash, currently_linked,
                   links, pending, outbox, inbox, peer, peer_linked>>

\* The origin of time moves by a second, so that time goes on for ever inside
\* 1..MaxClock: the scheduler reads time.time() only to compare it with
\* next_allowed_time and to set next_allowed_time from it.
Rebase ==
    /\ sched.pc = "sleep"
    /\ now = MaxClock
    /\ now' = now - 1
    /\ desired' = [i \in DOMAIN desired |->
                      [desired[i] EXCEPT !.next_allowed_time = @ - 1]]
    /\ UNCHANGED <<cs, last, ops, request_id_to_hash, currently_linked, links,
                   sched, pending, outbox, inbox, peer, peer_linked>>

TickNext ==
    \/ SleepOver
    \/ ServiceEntry
    \/ Rebase
    \/ \E h \in NetHashes :
          NetStep /\ RecvBroadcast(Packet(NEW_HASH_ID, PeerSrc, h)) /\ UNCHANGED inbox

\* The scheduler thread is a daemon thread in a while True loop, and time
\* passes.
TickFair ==
    /\ WF_vars(SleepOver)
    /\ WF_vars(ServiceEntry)
    /\ WF_vars(Rebase)

TickSpec == Init /\ [][TickNext]_vars /\ TickFair

\* ============================================== this node and its peer
\* The peer runs the same program: it owns PeerSrc, allows this node, and
\* every packet, announce, link and response between the two arrives, none of
\* them as late as the 60 seconds of a retry (the clock stands). Of the peer's
\* own mirroring (it fetches this node's SRC node once) the model keeps the
\* link it opens and the response it ingests.

\* The peer's announce_loop: send_announce, and handle_announce here.
PeerAnnounce ==
    /\ UNCHANGED ops
    /\ RecvAnnounce(PeerSrc, CHECKSUM_ID \o get_source_checksum(peer, PeerSrc))

\* A packet of this node reaches the peer: its broadcast_handler, and the
\* delayed_broadcast thread it starts, whose packet is then on its way here.
PeerTakes(data) ==
    /\ data \in outbox
    /\ outbox' = outbox \ {data}
    /\ UNCHANGED <<storevars, desired, request_id_to_hash, currently_linked,
                   links, sched, pending, peer_linked>>
    /\ \E b \in {broadcast_handler(PeerCfg, peer, Rns(<<>>, {}), data, now)} :
          /\ peer' = b.cs
          /\ inbox' = inbox \cup {t.data : t \in b.threads}

\* A packet of the peer arrives: broadcast_handler.
Deliver(data) ==
    /\ data \in inbox
    /\ inbox' = inbox \ {data}
    /\ UNCHANGED ops
    /\ RecvBroadcast(data)

\* The link make_hash_req waits for is established at both ends: the peer's
\* client_connected runs as well.
PairLinkUp(l) ==
    LET theirs == client_connected(peer_linked)
        closes == theirs.status = "closed"
    IN /\ LinkUp(l, closes)
       /\ peer_linked' = (l \in DOMAIN links')

\* The peer answers the request of link l: its request_handler, and
\* got_response_data here; the teardown reaches the peer's closed callback.
PairResponse(l) ==
    /\ l \in DOMAIN request_id_to_hash
    /\ \E q \in {get_node(peer, request_id_to_hash[l])} :
          /\ Response(l, q.payload)
          /\ peer' = q.cs
    /\ peer_linked' = IF l \in DOMAIN links' THEN peer_linked
                      ELSE client_disconnected(peer_linked)

\* The peer, which does not know this node's source yet, opens its link to
\* fetch it: client_connected at both ends.
PeerLinks ==
    /\ ~has_node(peer, OwnSrc)
    /\ \A l \in DOMAIN links : links[l].dir # "in"
    /\ FreeIds # {}
    /\ LET mine == client_connected(currently_linked)
           theirs == client_connected(peer_linked)
           open == mine.status = "active" /\ theirs.status = "active"
       IN /\ links' = IF open
                       THEN MapPut(links, NewId, Link("in", "active", PeerSrc))
                       ELSE links
          /\ currently_linked' = open
          /\ peer_linked' = open
    /\ UNCHANGED <<storevars, desired, request_id_to_hash, sched, pending,
                   outbox, inbox, peer>>

\* The peer's request on its link l is answered by request_handler here; the
\* peer's got_response_data ingests the answer and tears the link down.
PeerFetches(l) ==
    /\ l \in ActiveLinks
    /\ links[l].dir = "in"
    /\ links' = MapDel(links, l)
    /\ currently_linked' = client_disconnected(currently_linked)
    /\ peer_linked' = client_disconnected(peer_linked)
    /\ UNCHANGED <<now, last, ops, desired, request_id_to_hash, sched, pending,
                   outbox, inbox>>
    /\ \E q \in {get_node(cs, OwnSrc)} :
          /\ cs' = q.cs
          /\ peer' = add_data(peer, OwnSrc, q.payload, now).cs

PairNext ==
    \/ PeerAnnounce
    \/ \E d \in outbox : PeerTakes(d)
    \/ \E d \in inbox : Deliver(d)
    \/ SchedulerWake
    \/ ServiceEntry
    \/ \E l \in DOMAIN links : PairLinkUp(l)
    \/ \E l \in DOMAIN links : PairResponse(l)
    \/ PeerLinks
    \/ \E l \in DOMAIN links : PeerFetches(l)

\* Threads run and what is sent arrives.
PairFair ==
    /\ WF_vars(PeerAnnounce)
    /\ WF_vars(\E d \in outbox : PeerTakes(d))
    /\ WF_vars(\E d \in inbox : Deliver(d))
    /\ WF_vars(SchedulerWake)
    /\ WF_vars(ServiceEntry)
    /\ WF_vars(\E l \in DOMAIN links : PairLinkUp(l))
    /\ WF_vars(\E l \in DOMAIN links : PairResponse(l))
    /\ WF_vars(\E l \in DOMAIN links : PeerFetches(l))

PairSpec == Init /\ [][PairNext]_vars /\ PairFair

\* ======================================== the peer's source grows
\* The peer's user uploads one more file under the peer's SRC
\* (ServerCommandState.upload_file at the peer), once this node holds the
\* SRC node of the peer's source.
GrownData == <<1, 1>>
PeerAdds ==
    /\ has_node(cs, PeerSrc)
    /\ \A i \in 1..Len(peer.index) : peer.index[i].name # Name("g")
    /\ peer' = add_file(peer, Name("g"), GrownData, NoHash, now).cs
    /\ UNCHANGED <<storevars, desired, request_id_to_hash, currently_linked,
                   links, sched, pending, outbox, inbox, peer_linked>>

\* This node mirrors the peer as in PairSpec; the peer does not fetch from
\* this node.
GrowNext ==
    \/ PeerAnnounce
    \/ \E d \in outbox : PeerTakes(d)
    \/ \E d \in inbox : Deliver(d)
    \/ SchedulerWake
    \/ ServiceEntry
    \/ \E l \in DOMAIN links : PairLinkUp(l)
    \/ \E l \in DOMAIN links : PairResponse(l)
    \/ PeerAdds

GrowSpec == Init /\ [][GrowNext]_vars

\* ============================================ fetching and ingesting
\* A node dictionary of the peer with two FILE nodes under its SRC whose
\* sizes are max_file_size and one byte less.
LargeFile == <<-4, 3>>
EdgeFile == <<-4, 4>>
LargeDict ==
    <<dump(Cid(LargeFile, Name("large"), 1, max_file_size, PeerSrc, <<>>, FALSE,
               TYPE_FILE)),
      dump(Cid(EdgeFile, Name("edge"), 1, max_file_size - 1, PeerSrc, <<>>, FALSE,
               TYPE_FILE))>>

\* The scheduler fetches what NH and NP packets of the peer make it desire,
\* and the response is one of the peer's dictionaries or chunks.
FetchNext ==
    \/ SchedulerWake
    \/ ServiceEntry
    \/ \E l \in DOMAIN links : LinkUp(l, FALSE) /\ UNCHANGED peer_linked
    \/ \E h \in NetHashes, id \in {NEW_HASH_ID, NODE_PRESENT_ID} :
          NetStep /\ RecvBroadcast(Packet(id, PeerSrc, h)) /\ UNCHANGED inbox
    \/ \E l \in DOMAIN links, p \in PeerPayloads \cup {DictPayload(LargeDict)} :
          Response(l, p) /\ UNCHANGED <<peer, peer_linked>>

FetchSpec == Init /\ [][FetchNext]_vars

\* ===================================================== claims on the store
\* The node an add_file or add_dir just created.
Made == get_node_obj(cs, last.ret)

\* C6: add_file(name, B, P) with B non-empty and P valid creates a FILE node
\* whose children, read back and concatenated in child order, are B, and
\* data_hash(P, those bytes, include_source = true) is the FILE's hash.
C6_RoundTrip ==
    (last.op = "add_file" /\ last.ok /\ last.data # <<>>) =>
        /\ has_node(cs, last.ret)
        /\ Made.type = TYPE_FILE
        /\ ReadChunks(cs, Made.children, 1) = last.data
        /\ get_data_hash(cs, Made.parent,
                         ReadChunks(cs, Made.children, 1), TRUE) = Made.hash

\* The nodes under h by the children lists, h included.
Subtree(c, h) == {h} \cup Range(get_children(c, h, TRUE))

\* C7: once remove_hash(h) on a non-SRC node h of the index has ended,
\* neither h nor a node that was under h is in the index, and no CHUNK that
\* was under h has a data file left.
C7_RemoveCascade ==
    [][(/\ ops' # ops
        /\ last'.op = "remove_hash"
        /\ has_node(cs, last'.arg)
        /\ get_node_obj(cs, last'.arg).type # TYPE_SRC) =>
          \A k \in Subtree(cs, last'.arg) :
              /\ ~has_node(cs', k)
              /\ (k # last'.arg /\ is_storage_hash(cs, k) => ~is_file(cs', k))]_vars

\* The bytes of chunk k are in the store and hash to k.
ChunkIntact(c, k) ==
    /\ has_node(c, k)
    /\ is_file(c, k)
    /\ get_data_hash(c, get_node_obj(c, k).parent, c.files[k], FALSE) = k

\* A FILE without children is under h (section 3, invariant 5 of the
\* specification counts such a FILE as not stored).
HasEmptyFile(c, h) ==
    \E k \in Subtree(c, h) :
        /\ has_node(c, k)
        /\ get_node_obj(c, k).type = TYPE_FILE
        /\ get_node_obj(c, k).children = <<>>

\* The hashes under h that are chunks, or stand for nodes not in the index.
ChunksUnder(c, h) ==
    {k \in Subtree(c, h) : ~has_node(c, k) \/ is_storage_hash(c, k)}

\* C8: check_is_stored(H) is true iff every CHUNK under H has a data file
\* whose bytes hash to the chunk's hash (FILEs without children set aside).
C8_StoredIffIntact ==
    \A h \in Keys(cs.index) :
        ~HasEmptyFile(cs, h) =>
            (check_is_stored(cs, h).ret <=>
                \A k \in ChunksUnder(cs, h) : ChunkIntact(cs, k))

FileNodes(c) == {h \in Keys(c.index) : get_node_obj(c, h).type = TYPE_FILE}

\* C9: the same chunk bytes under two distinct FILE nodes get two distinct
\* chunk hashes, so no hash is a child of two FILE nodes.
C9_ParentSalt ==
    \A f1 \in FileNodes(cs), f2 \in FileNodes(cs) :
        f1 # f2 =>
            /\ \A b \in Datas \ {<<>>} :
                   add_node(cs, Name("f"), f1, TYPE_CHUNK, now, b, FALSE, now).ret
                   # add_node(cs, Name("f"), f2, TYPE_CHUNK, now, b, FALSE, now).ret
            /\ Range(get_node_obj(cs, f1).children)
                   \cap Range(get_node_obj(cs, f2).children) = {}

\* C10: every non-SRC node of the index has its parent in the index.
C10_ParentInIndex ==
    \A h \in Keys(cs.index) :
        get_node_obj(cs, h).type # TYPE_SRC =>
            has_node(cs, get_node_obj(cs, h).parent)

\* ================================================ claims on the network
\* C1: at most one link, incoming or outgoing, is established and not yet
\* closed.
C1_OneLink == Cardinality(ActiveLinks) <= 1

\* C2: when the response to the fetch of a desired CHUNK carries bytes that do
\* not hash to the chunk's hash, no data file is written, the node is not
\* marked stored, and the hash stays in the desired table with the attempt
\* counted.
C2_BadChunkKept ==
    [][\A l \in DOMAIN links, p \in PeerPayloads :
          (/\ Response(l, p)
           /\ p.kind = "raw"
           /\ request_id_to_hash[l] \in Keys(desired)
           /\ is_storage_hash(cs, request_id_to_hash[l])
           /\ ~is_file(cs, request_id_to_hash[l])
           /\ get_data_hash(cs, get_node_obj(cs, request_id_to_hash[l]).parent,
                            p.bytes, FALSE) # request_id_to_hash[l])
          => /\ ~is_file(cs', request_id_to_hash[l])
             /\ ~get_node_obj(cs', request_id_to_hash[l]).is_stored
             /\ request_id_to_hash[l] \in Keys(desired')
             /\ Wanted(desired', request_id_to_hash[l]).attempts >= 1]_vars

\* C3: a pass of the scheduler loop over an entry whose attempts exceed
\* max_allowed_attempts removes the entry from the desired table.
C3_AttemptsCap ==
    [][(/\ ServiceEntry
        /\ sched.keys[sched.i] \in Keys(desired)
        /\ Wanted(desired, sched.keys[sched.i]).attempts > max_allowed_attempts)
       => sched.keys[sched.i] \notin Keys(desired')]_vars

\* C4: in one pass of service_desired_hash_list over the desired table at
\* most one fetch is started or RH broadcast re-emitted.
C4_OneActionPerTick == sched.acts <= 1

\* C5: with every announce, broadcast and fetch delivered, this node's
\* checksum of the peer's source eventually equals the peer's.
C5_Converges ==
    <>(get_source_checksum(cs, PeerSrc) = get_source_checksum(peer, PeerSrc))

\* The peer's source holds a file, and this node has fetched the source and
\* computes the peer's checksum for it.
C5_Mirrored ==
    /\ FileNodes(peer) # {}
    /\ has_node(cs, PeerSrc)
    /\ PeerSrc \notin Keys(desired)
    /\ get_source_checksum(cs, PeerSrc) = get_source_checksum(peer, PeerSrc)

\* add_data(h, p) takes the response p in: it returns normally, and for a
\* CHUNK the bytes hash to h (the data file is written).
Ingests(c, h, p) ==
    /\ p.kind # "none"
    /\ ~add_data(c, h, p, now).raised
    /\ (has_node(c, h) /\ get_parent_hashes(c, h) # <<>> /\ is_storage_hash(c, h))
          => /\ p.kind = "raw"
             /\ h = get_data_hash(c, get_node_obj(c, h).parent, p.bytes, FALSE)

\* C11: when the response to the fetch of h is ingested by add_data, h leaves
\* the desired table, the request id leaves request_id_to_hash, and the link
\* is torn down.
C11_FetchDone ==
    [][\A l \in DOMAIN links, p \in PeerPayloads :
          (Response(l, p) /\ Ingests(cs, request_id_to_hash[l], p))
          => /\ request_id_to_hash[l] \notin Keys(desired')
             /\ l \notin DOMAIN request_id_to_hash'
             /\ l \notin DOMAIN links']_vars

\* The fetch on link l fails after its request was made: the link times out
\* or is closed by the destination (the failed callback only logs), or the
\* response is empty.
FetchFails(l) ==
    /\ l \in ActiveLinks
    /\ links[l].dir = "out"
    /\ l \in DOMAIN request_id_to_hash
    /\ (LinkClosed(l) \/ (Response(l, NoPayload) /\ UNCHANGED <<peer, peer_linked>>))

C13_HandlerCompletes ==
    \A l \in ActiveLinks \cap DOMAIN request_id_to_hash, p \in PeerPayloads :
        request_id_to_hash[l] \in Keys(desired) =>
            \E g \in {got_response_data(OwnCfg, cs, Rns(desired, outbox),
                                        request_id_to_hash, currently_linked, l,
                                        p, now)} :
                ~g.raised /\ g.status = "closed"

\* C14: cancel(h) removes h from the desired table and tears down the links
\* whose request is for h.
C14_Cancel ==
    \A h \in Keys(desired) :
        \E r \in {cancel_request(desired, request_id_to_hash, h)} :
            /\ ~r.raised
            /\ h \notin Keys(r.desired)
            /\ \A l \in ActiveLinks \cap DOMAIN request_id_to_hash :
                   request_id_to_hash[l] = h => l \in r.closes

\* C15: a second make_hash_desire_request(H), made later while H is still
\* desired, leaves one entry for H, and its providers, attempts and next
\* allowed time as they were.
C15_DesireOnce ==
    \A h \in NetHashes :
        LET first == IF h \in Keys(desired) THEN Rns(desired, outbox)
                     ELSE make_hash_desire_request(OwnCfg, Rns(desired, outbox),
                                                   h, now)
            second == make_hash_desire_request(OwnCfg, first, h, now + 1)
        IN /\ Cardinality({i \in 1..Len(second.desired) :
                              second.desired[i].hash = h}) = 1
           /\ Wanted(second.desired, h) = Wanted(first.desired, h)
           /\ second.desired = first.desired

\* A hash is desired, has been tried and has a provider listed.
C15_Tried ==
    \E h \in Keys(desired) :
        Wanted(desired, h).attempts >= 1 /\ Wanted(desired, h).sources # <<>>

\* C16: with allow_all false, an announce or an RH, NP or NH broadcast of a
\* source that is not in allowed_peers changes nothing in the desired table
\* and sends or schedules no broadcast.
C16_StrangerIgnored ==
    [][\/ UNCHANGED <<desired, outbox, pending, cs>>
       \/ ~(\/ \E a \in AnnounceData : RecvAnnounce(StrangerSrc, a)
            \/ \E d \in NetPackets :
                  /\ breakdown_broadcast_data(d, Len(REQUEST_HASH_ID),
                                              Len(OwnCfg.hexhash)).source = StrangerSrc
                  /\ RecvBroadcast(d))]_vars

\* Packets have arrived, and what a stranger could ask for or offer is
\* there: a node of the index to answer an RH with, a desired hash without a
\* provider for an NP.
C16_Tempting ==
    /\ ops >= 1
    /\ ~OwnCfg.allow_all
    /\ StrangerSrc \notin OwnCfg.allowed_peers
    /\ \E h \in NetHashes : has_node(cs, h)
    /\ \E h \in Keys(desired) : Wanted(desired, h).sources = <<>>

\* The fields of an index entry that add_node_dict must leave alone.
Kept(n) == <<n.name, n.parent, n.children, n.type, n.size, n.time_stamp>>

\* C17: add_node_dict inserts a node only if its hash is not in the index,
\* leaves the name, parent, children, type, size and time_stamp of every
\* entry that was there, and fires the update callback once for every hash
\* it inserts and for no other.
C17_DictFrame ==
    [][(ops' # ops /\ last'.op = "add_node_dict") =>
          /\ \A h \in Keys(cs.index) :
                 /\ has_node(cs', h)
                 /\ Kept(get_node_obj(cs', h)) = Kept(get_node_obj(cs, h))
          /\ {last'.updated[i].hash : i \in 1..Len(last'.updated)}
                = Keys(cs'.index) \ Keys(cs.index)
          /\ \A i, j \in 1..Len(last'.updated) :
                 last'.updated[i].hash = last'.updated[j].hash => i = j]_vars

\* add_node_dict has inserted nodes into an index that held nodes of the
\* same source already.
C17_Merged ==
    /\ last.op = "add_node_dict"
    /\ last.updated # <<>>
    /\ Len(cs.index) > Len(last.updated) + 1

\* A parent argument that add_file and add_dir must refuse: a FILE or a
\* CHUNK, a hash the index does not have, or a node outside this node's tree.
BadParent(c, p) ==
    /\ p # NoHash
    /\ \/ ~has_node(c, p)
       \/ get_node_obj(c, p).type \in {TYPE_FILE, TYPE_CHUNK}
       \/ /\ p # c.source_hash
          /\ \A i \in 1..Len(get_parent_hashes(c, p)) :
                get_parent_hashes(c, p)[i] # c.source_hash

\* C18: add_file and add_dir return failure and leave the index and the
\* chunk store as they were when the parent is a FILE or a CHUNK, is not in
\* the index, or is neither this node's SRC nor a descendant of it.
C18_BadParentRefused ==
    [][(/\ ops' # ops
        /\ last'.op \in {"add_file", "add_dir"}
        /\ BadParent(cs, last'.arg))
       => (cs' = cs /\ ~last'.ok /\ last'.ret = NoHash)]_vars

\* add_file or add_dir has been refused under a FILE of this node's tree.
C18_Refused ==
    /\ last.op \in {"add_file", "add_dir"}
    /\ ~last.ok
    /\ has_node(cs, last.arg)
    /\ get_node_obj(cs, last.arg).type = TYPE_FILE
    /\ cs.source_hash \in Range(get_parent_hashes(cs, last.arg))

\* add_file or add_dir has been refused under a node of the peer's tree.
C18_RefusedForeign ==
    /\ last.op \in {"add_file", "add_dir"}
    /\ ~last.ok
    /\ has_node(cs, last.arg)
    /\ get_node_obj(cs, last.arg).type \in {TYPE_SRC, TYPE_DIR}

\* The hashes a node dictionary has entries for.
DictKeys(d) == {d[i].hash : i \in 1..Len(d)}

\* A node dictionary that has one entry per hash, each the dump of the node
\* the index c has for it.
DumpOf(c, d) ==
    /\ Cardinality(DictKeys(d)) = Len(d)
    /\ \A i \in 1..Len(d) :
          has_node(c, d[i].hash) /\ d[i] = dump(get_node_obj(c, d[i].hash))

\* The nodes of the index that the children list of h names.
ChildrenOf(c, h) ==
    {k \in Keys(c.index) : k \in Range(get_node_obj(c, h).children)}

RECURSIVE Closure(_,_)
\* The least set of index nodes that holds S and the children of its members.
Closure(c, S) ==
    LET T == S \cup UNION {ChildrenOf(c, p) : p \in S}
    IN IF T = S THEN S ELSE Closure(c, T)

\* The transitive descendants of h that the index has.
Descendants(c, h) == Closure(c, ChildrenOf(c, h))

\* C19: get_node on a FILE returns a dictionary that holds the FILE node and
\* its direct CHUNK children, and nothing else.
C19_FileOneLevel ==
    \A h \in Keys(cs.index) :
        get_node_obj(cs, h).type = TYPE_FILE =>
            \E r \in {get_node(cs, h)} :
                /\ r.payload.kind = "dict"
                /\ DumpOf(r.cs, r.payload.dict)
                /\ DictKeys(r.payload.dict)
                     = {h} \cup {k \in ChildrenOf(cs, h) :
                                   get_node_obj(cs, k).type = TYPE_CHUNK}

\* The index has a FILE of two chunks or more.
C19_ChunkedFile ==
    \E h \in Keys(cs.index) :
        /\ get_node_obj(cs, h).type = TYPE_FILE
        /\ Cardinality(ChildrenOf(cs, h)) >= 2

Intact(c) ==
    \A h \in DOMAIN c.files :
        (has_node(c, h) /\ get_node_obj(c, h).type = TYPE_CHUNK)
        => h = get_data_hash(c, get_node_obj(c, h).parent, c.files[h], FALSE)

\* get_node on a CHUNK returns the bytes of its data file if they hash to the
\* CHUNK's hash, and nothing otherwise.
ChunksVerified(c) ==
    \A h \in Keys(c.index) :
        get_node_obj(c, h).type = TYPE_CHUNK =>
            \E r \in {get_node(c, h)} :
                IF is_file(c, h)
                   /\ h = get_data_hash(c, get_node_obj(c, h).parent, c.files[h], FALSE)
                THEN r.payload = RawPayload(c.files[h])
                ELSE r.payload = NoPayload

\* C21: the calls of the store (add_file, add_data and the others) keep every
\* stored CHUNK equal in hash to its data file, and in every state, one with
\* a damaged data file included, get_node on a CHUNK returns bytes only if
\* they hash to the CHUNK's hash and nothing otherwise.
C21_ChunkIntegrity ==
    [][/\ (ops' # ops /\ last'.op # "corrupt" /\ Intact(cs)) => Intact(cs')
       /\ ChunksVerified(cs')]_vars

\* add_data has stored the bytes of a CHUNK of the peer's tree.
C21_ChunkFetched ==
    /\ last.op = "add_data"
    /\ last.arg \in DOMAIN cs.files
    /\ has_node(cs, last.arg)
    /\ get_node_obj(cs, last.arg).type = TYPE_CHUNK
    /\ cs.files[last.arg] = last.data
    /\ Intact(cs)

\* C22: when remove_hash has ended, every CHUNK that left the index, removed
\* directly or by the sweep of orphans, has no data file any more, and the
\* store holds no data file whose name is not a hash of the index.
C22_FilesFollowNodes ==
    [][(ops' # ops /\ last'.op = "remove_hash" /\ ~last'.raised) =>
          /\ \A k \in Keys(cs.index) \ Keys(cs'.index) :
                 is_storage_hash(cs, k) => ~is_file(cs', k)
          /\ DOMAIN cs'.files \subseteq Keys(cs'.index)]_vars

\* The hash a delayed NP broadcast answers for.
Announced(t) ==
    breakdown_broadcast_data(t.data, Len(NODE_PRESENT_ID), Len(OwnCfg.hexhash)).hash

\* C23: a delayed NP broadcast for a hash that has left the index since it
\* was scheduled is not sent when its delay is over.
C23_StaleNotSent ==
    [][\A t \in pending :
          (DelayedBroadcast(t) /\ ~has_node(cs, Announced(t)) /\ t.data \notin outbox)
          => t.data \notin outbox']_vars

\* The fields of an index entry that are fixed when the node is created.
Fixed(n) == <<n.hash, n.parent, n.type, n.size, n.time_stamp>>

\* C24: add_file, add_dir, add_data and add_node_dict leave the hash, parent,
\* type, size and time_stamp of every node of the index as they were.
C24_FixedFields ==
    [][(/\ ops' # ops
        /\ last'.op \in {"add_file", "add_dir", "add_data", "add_node_dict"})
       => \A h \in Keys(cs.index) :
              has_node(cs', h)
              => Fixed(get_node_obj(cs', h)) = Fixed(get_node_obj(cs, h))]_vars

\* The pass of the scheduler loop over the entry of hash does nothing for it:
\* the entry has no provider and its next_allowed_time has not passed.
IdlePass(hash) ==
    /\ ServiceEntry
    /\ hash = sched.keys[sched.i]
    /\ hash \in Keys(desired)
    /\ Wanted(desired, hash).sources = <<>>
    /\ ~(now > Wanted(desired, hash).next_allowed_time)

\* C25: a pass of the scheduler loop that neither fetches nor re-broadcasts
\* for an entry leaves its attempts and its next_allowed_time unchanged.
C25_IdleTickKeeps ==
    [][\A hash \in Keys(desired) :
          IdlePass(hash)
          => /\ hash \in Keys(desired')
             /\ Wanted(desired', hash).attempts = Wanted(desired, hash).attempts
             /\ Wanted(desired', hash).next_allowed_time
                   = Wanted(desired, hash).next_allowed_time]_vars

\* C26: with the scheduler ticking once a second and no link active, a
\* desired entry without providers has its RH broadcast sent again: some pass
\* of the loop performs an action.
C26_RetrySent == (desired # <<>>) ~> (sched.acts >= 1)

\* C27: on every index, one with cyclic children lists included, get_node,
\* get_children and check_is_stored come to an end for every hash.
C27_TraversalsEnd ==
    \A h \in Keys(cs.index) :
        /\ get_node_ends(cs, h)
        /\ get_children_ends(cs, h, FALSE, Len(cs.index) + 1)
        /\ get_children_ends(cs, h, TRUE, Len(cs.index) + 1)
        /\ check_is_stored_ends(cs, h, Len(cs.index) + 1)

\* C28: the wait of make_hash_req for its link always ends, also when the
\* link is never established, and the scheduler loop goes on.
C28_WaitEnds == (sched.pc = "wait") ~> (sched.pc # "wait")

\* C29: when this node holds the SRC node of the peer's source and a fetch of
\* that source is answered and ingested, this node's checksum of the source
\* equals the peer's, whatever the peer has added since the first fetch.
C29_Resynced ==
    [][\A l \in DOMAIN links :
          (/\ PairResponse(l)
           /\ request_id_to_hash[l] = PeerSrc
           /\ has_node(cs, PeerSrc))
          => get_source_checksum(cs', PeerSrc) = get_source_checksum(peer', PeerSrc)]_vars

\* C30: an RH for h schedules an NP broadcast only if h is in the index and,
\* when h is a CHUNK, its data file is in the store; an RH for an unknown
\* hash or for a CHUNK without its bytes schedules nothing.
C30_AnswerOnlyIfHeld ==
    \A source \in Peers, h \in Keys(cs.index) \cup NetHashes :
        \E r \in {handle_hash_request(OwnCfg, cs, source, h)} :
            r.threads # {}
            => /\ has_node(cs, h)
               /\ get_node_obj(cs, h).type = TYPE_CHUNK => is_file(cs, h)

\* The index holds a CHUNK without its bytes and a CHUNK with them, and an RH
\* of the peer for the second is answered.
C30_BothChunks ==
    \E h, k \in Keys(cs.index) :
        /\ get_node_obj(cs, h).type = TYPE_CHUNK /\ ~is_file(cs, h)
        /\ get_node_obj(cs, k).type = TYPE_CHUNK /\ is_file(cs, k)
        /\ handle_hash_request(OwnCfg, cs, PeerSrc, k).threads # {}
        /\ handle_hash_request(OwnCfg, cs, PeerSrc, h).threads = {}

\* A node of the index that updated_hash_callback requests: a FILE or CHUNK
\* below the size limit that check_is_stored finds not stored.
AutoDesired(c, h) ==
    /\ get_node_obj(c, h).type \in {TYPE_FILE, TYPE_CHUNK}
    /\ get_node_obj(c, h).size < max_file_size \/ max_file_size = -1
    /\ ~check_is_stored_ret(c, h)

\* C31: when the response of a fetch is ingested, every node the ingestion
\* inserts that is a FILE or CHUNK, not stored and below max_file_size is
\* desired when its callback returns and its RH is broadcast; it is still
\* desired when the handler ends, unless it is the fetched hash itself, which
\* the completed fetch removes. An inserted DIR or SRC node, or one of size
\* max_file_size or more, is not made desired and no RH is sent for it.
C31_AutoDesire ==
    [][\A l \in DOMAIN links, p \in PeerPayloads \cup {DictPayload(LargeDict)} :
          Response(l, p)
          => \E a \in {add_data(cs, request_id_to_hash[l], p, now)} :
             \E r \in {send_update_callback(OwnCfg, Rns(desired, outbox),
                                             a.updated, 1, now)} :
             \A h \in Keys(cs'.index) \ Keys(cs.index) :
                /\ AutoDesired(cs', h)
                   => /\ h \in Keys(r.desired)
                      /\ Packet(REQUEST_HASH_ID, OwnSrc, h) \in outbox'
                      /\ h \in Keys(desired') \/ h = request_id_to_hash[l]
                /\ (\/ get_node_obj(cs', h).type \in {TYPE_DIR, TYPE_SRC}
                    \/ (get_node_obj(cs', h).size >= max_file_size
                        /\ max_file_size # -1))
                   => /\ h \in Keys(desired') => h \in Keys(desired)
                      /\ Packet(REQUEST_HASH_ID, OwnSrc, h) \in outbox'
                            => Packet(REQUEST_HASH_ID, OwnSrc, h) \in outbox]_vars

\* The dictionary with the two sizes has been ingested: the FILE below the
\* limit is desired and requested, the FILE at the limit is not.
C31_LimitApplied ==
    /\ has_node(cs, EdgeFile) /\ has_node(cs, LargeFile)
    /\ EdgeFile \in Keys(desired) /\ LargeFile \notin Keys(desired)
    /\ Packet(REQUEST_HASH_ID, OwnSrc, EdgeFile) \in outbox
    /\ Packet(REQUEST_HASH_ID, OwnSrc, LargeFile) \notin outbox

\* C32: currently_linked is true in every state in which a link is
\* established and not yet closed; the closed callback of a rejected link does
\* not reset it while the other link is active.
C32_LinkedWhileActive == ActiveLinks # {} => currently_linked

RECURSIVE SeqOfSet(_)
\* The members of a finite set, one after the other.
SeqOfSet(S) ==
    IF S = {} THEN <<>>
    ELSE LET x == CHOOSE y \in S : TRUE IN <<x>> \o SeqOfSet(S \ {x})

\* The hash of the sorted list of the non-chunk nodes of the index that
\* descend from source_hash.
ChecksumOfTree(c, source_hash) ==
    get_data_hash(c, NoHash,
        StrOfList(sorted(SeqOfSet({h \in Descendants(c, source_hash) :
                                     get_node_obj(c, h).type # TYPE_CHUNK}))),
        FALSE)

\* C33: in every state reached by add_file, add_dir and remove_hash,
\* get_source_checksum of the own source is the hash of the sorted list of
\* exactly the non-chunk nodes that are in the index and descend from it.
C33_ChecksumOfTree ==
    get_source_checksum(cs, OwnSrc) = ChecksumOfTree(cs, OwnSrc)

\* A node add_dir makes, or add_file with empty data: its hash is the path
\* hash of its parent.
PathNamed(n) == n.type = TYPE_DIR \/ (n.type = TYPE_FILE /\ n.size = 0)

\* C34: an add_dir, or an add_file with empty data, under a parent that has
\* such a node of another name returns a hash different from that node's and
\* leaves that node's entry, its children list included, as it was.
C34_SiblingsDistinct ==
    [][(/\ ops' # ops
        /\ last'.op \in {"add_dir", "add_file"}
        /\ last'.data = <<>>
        /\ last'.ok)
       => \A h \in Keys(cs.index) :
             (/\ PathNamed(get_node_obj(cs, h))
              /\ get_node_obj(cs, h).parent
                    = (IF last'.arg = NoHash THEN cs.source_hash ELSE last'.arg)
              /\ get_node_obj(cs, h).name # get_node_obj(cs', last'.ret).name)
             => /\ last'.ret # h
                /\ get_node_obj(cs', h) = get_node_obj(cs, h)]_vars

====
